---------------------------- MODULE Spec2Model ----------------------------
(***************************************************************************)
(* Model of scripts/collect_python_compat.py: the construction of the      *)
(* "Python version -> last supported package version" matrix by            *)
(* get_python_compatibility_matrix.                                        *)
(*                                                                         *)
(* Python strings are TLA+ strings in the state; wherever the code looks   *)
(* inside a string (Version(...), SpecifierSet(...), string comparison in  *)
(* the fallback sort, py_ver + ".0") the string is taken as its sequence   *)
(* of code points (Chars) and parsed or compared character by character.  *)
(***************************************************************************)
EXTENDS Integers, Sequences, FiniteSets, TLC

(***************************************************************************)
(* Python values                                                           *)
(***************************************************************************)

\* Python's None; no string of the model is spelled like this.
None == "<None>"

\* A key a dict does not hold (dict.get then returns its default).
Absent == "<absent>"

\* The code points of every string the model's inputs are drawn from.
CodePoints ==
    ("" :> <<>>) @@
    ("10.0" :> <<49, 48, 46, 48>>) @@
    ("9.0" :> <<57, 46, 48>>) @@
    ("1.0.0a1" :> <<49, 46, 48, 46, 48, 97, 49>>) @@
    ("2004d" :> <<50, 48, 48, 52, 100>>) @@
    (">=3.9" :> <<62, 61, 51, 46, 57>>) @@
    ("<3.8" :> <<60, 51, 46, 56>>) @@
    (">=3.x" :> <<62, 61, 51, 46, 120>>) @@
    (">=3.8,<3.11" :> <<62, 61, 51, 46, 56, 44, 60, 51, 46, 49, 49>>) @@
    (".0" :> <<46, 48>>) @@
    ("3.7" :> <<51, 46, 55>>) @@
    ("3.8" :> <<51, 46, 56>>) @@
    ("3.9" :> <<51, 46, 57>>) @@
    ("3.10" :> <<51, 46, 49, 48>>) @@
    ("3.11" :> <<51, 46, 49, 49>>) @@
    ("3.12" :> <<51, 46, 49, 50>>) @@
    ("3.13" :> <<51, 46, 49, 51>>) @@
    ("3.14" :> <<51, 46, 49, 52>>)

Chars(s) == CodePoints[s]

\* Python truthiness of an optional string: None and "" are falsy.
Truthy(x) == x # None /\ x # ""

\* d.get(key, default) on a record whose missing keys hold Absent.
Get(d, key, default) == IF d[key] = Absent THEN default ELSE d[key]

\* Python's a < b on two strings (code point sequences): lexicographic, a
\* proper prefix being the smaller.
StrLess(a, b) ==
    \E i \in 1..Len(b) :
        /\ \A j \in 1..(i - 1) : j <= Len(a) /\ a[j] = b[j]
        /\ (i > Len(a) \/ a[i] < b[i])

\* Python's a < b on two tuples of integers.
TupleLess(a, b) == StrLess(a, b)

(***************************************************************************)
(* packaging.version.Version, on the part of the PEP 440 grammar the       *)
(* inputs use: a release N(.N)* and an optional pre-release tag a, b or rc *)
(* with an optional number.  Any other text is InvalidVersion.             *)
(***************************************************************************)

IsDigit(c) == c \in 48..57

\* The least of a non-empty set of integers.
Min(S) == CHOOSE j \in S : \A k \in S : j <= k

\* The first position at or after i that holds no digit (Len(s) + 1 if none).
DigitEnd(s, i) == Min({j \in i..Len(s) : ~IsDigit(s[j])} \cup {Len(s) + 1})

\* The first position that holds neither a digit nor a dot.
ReleaseEnd(s) == Min({j \in 1..Len(s) : ~IsDigit(s[j]) /\ s[j] # 46} \cup {Len(s) + 1})

RECURSIVE ToInt(_, _, _)
\* int(s[i..j-1]) for a run of digits (0 for the empty run).
ToInt(s, i, j) ==
    IF j <= i THEN 0 ELSE 10 * ToInt(s, i, j - 1) + (s[j - 1] - 48)

RECURSIVE Split(_, _)
RECURSIVE SplitAt(_, _, _)
\* s.split(sep) for a one-character separator.
Split(s, sep) == SplitAt(s, sep, Min({j \in 1..Len(s) : s[j] = sep} \cup {Len(s) + 1}))

\* s.split(sep), the first separator standing at c (past the end: none).
SplitAt(s, sep, c) ==
    IF c > Len(s) THEN <<s>>
    ELSE <<SubSeq(s, 1, c - 1)>> \o Split(SubSeq(s, c + 1, Len(s)), sep)

InvalidVersion == [valid |-> FALSE, release |-> <<>>, pre |-> <<>>]

\* The pre-release tag standing at i: its letters and the position after it.
PreTag(s, i) ==
    IF i > Len(s) THEN [ok |-> TRUE, letter |-> <<>>, next |-> i]
    ELSE IF s[i] = 97 \/ s[i] = 98
    THEN [ok |-> TRUE, letter |-> <<s[i]>>, next |-> i + 1]
    ELSE IF i + 1 <= Len(s) /\ s[i] = 114 /\ s[i + 1] = 99
    THEN [ok |-> TRUE, letter |-> <<114, 99>>, next |-> i + 2]
    ELSE [ok |-> FALSE, letter |-> <<>>, next |-> i]

\* The version of s, its release numbers being the digit runs segs and its
\* pre-release tag tag (followed by digits to the end of s, or it is none).
VersionOf(s, segs, tag) ==
    IF (\E i \in 1..Len(segs) : segs[i] = <<>>) \/ ~tag.ok
       \/ DigitEnd(s, tag.next) # Len(s) + 1
    THEN InvalidVersion
    ELSE [valid   |-> TRUE,
          release |-> [i \in 1..Len(segs) |-> ToInt(segs[i], 1, Len(segs[i]) + 1)],
          pre     |-> IF tag.letter = <<>> THEN <<>>
                      ELSE <<tag.letter, ToInt(s, tag.next, Len(s) + 1)>>]

\* The version of s, its release text ending before position k.
VersionFrom(s, k) == VersionOf(s, Split(SubSeq(s, 1, k - 1), 46), PreTag(s, k))

\* Version(s): the parsed version, or InvalidVersion where the code's
\* Version(...) raises packaging.version.InvalidVersion.
Version(s) == VersionFrom(s, ReleaseEnd(s))

is_prerelease(v) == v.pre # <<>>

RECURSIVE StripZeros(_)
\* The release without its trailing zeros (Version's comparison key).
StripZeros(r) ==
    IF r # <<>> /\ r[Len(r)] = 0 THEN StripZeros(SubSeq(r, 1, Len(r) - 1)) ELSE r

\* (ra, pa) < (rb, pb) on two comparison keys: by release, then a pre-release
\* below its final release, pre-releases by tag and number.
KeyLess(ra, pa, rb, pb) ==
    \/ TupleLess(ra, rb)
    \/ /\ ra = rb
       /\ pa # <<>>
       /\ \/ pb = <<>>
          \/ StrLess(pa[1], pb[1])
          \/ pa[1] = pb[1] /\ pa[2] < pb[2]

\* a < b on two valid versions.
VersionLess(a, b) == KeyLess(StripZeros(a.release), a.pre, StripZeros(b.release), b.pre)

\* -1, 0, 1 as a < b, a == b, a > b.
VersionCmp(a, b) == IF VersionLess(a, b) THEN -1 ELSE IF VersionLess(b, a) THEN 1 ELSE 0

(***************************************************************************)
(* packaging.specifiers.SpecifierSet, on the clauses the inputs use: a     *)
(* comma-separated list of <operator><version> with the operators ~=, ==,  *)
(* !=, <=, >=, <, > and no wildcard.  Any other text is InvalidSpecifier.  *)
(***************************************************************************)

InvalidSpecifier ==
    [valid |-> FALSE, operator |-> "", version |-> InvalidVersion, text |-> <<>>]

\* How many characters of s spell its operator (0: none does).
OperatorLen(s) ==
    IF Len(s) >= 2 /\ s[2] = 61 /\ s[1] \in {126, 61, 33, 60, 62} THEN 2
    ELSE IF Len(s) >= 1 /\ s[1] \in {60, 62} THEN 1
    ELSE 0

OperatorName(cs) ==
    CASE cs = <<126, 61>> -> "~="
      [] cs = <<61, 61>>  -> "=="
      [] cs = <<33, 61>>  -> "!="
      [] cs = <<60, 61>>  -> "<="
      [] cs = <<62, 61>>  -> ">="
      [] cs = <<60>>      -> "<"
      [] cs = <<62>>      -> ">"
      [] OTHER            -> ""

\* The clause of operator op and version text txt, which parses as v.
SpecifierOf(op, txt, v) ==
    IF op = "" \/ ~v.valid \/ (op = "~=" /\ Len(v.release) < 2)
    THEN InvalidSpecifier
    ELSE [valid |-> TRUE, operator |-> op, version |-> v, text |-> txt]

\* The clause s, its operator being its first n characters.
SpecifierFrom(s, n) ==
    SpecifierOf(OperatorName(SubSeq(s, 1, n)), SubSeq(s, n + 1, Len(s)),
                Version(SubSeq(s, n + 1, Len(s))))

\* Specifier(s): one clause, or InvalidSpecifier where the constructor raises.
Specifier(s) == SpecifierFrom(s, OperatorLen(s))

\* The specifier set of the clauses cs.
ClauseSet(cs) == [valid |-> \A c \in cs : c.valid, specs |-> cs]

\* The specifier set of the comma-separated pieces (empty pieces are dropped).
SpecifierSetOf(parts) ==
    ClauseSet({Specifier(parts[i]) : i \in {j \in 1..Len(parts) : parts[j] # <<>>}})

\* SpecifierSet(s), invalid where the constructor raises InvalidSpecifier.
SpecifierSet(s) == SpecifierSetOf(Split(s, 44))

\* The i-th release number of v, 0 past its end (release comparison pads
\* with zeros).
Seg(v, i) == IF i <= Len(v.release) THEN v.release[i] ELSE 0

\* Whether a clause of operator op holds of v, v comparing as cmp with the
\* clause's version cv.
ClauseHolds(op, cmp, v, cv) ==
    CASE op = ">=" -> cmp >= 0
      [] op = "<=" -> cmp <= 0
      [] op = ">"  -> cmp > 0
      [] op = "<"  -> cmp < 0
      [] op = "==" -> cmp = 0
      [] op = "!=" -> cmp # 0
      [] op = "~=" -> cmp >= 0 /\ \A i \in 1..(Len(cv.release) - 1) : Seg(v, i) = Seg(cv, i)

\* Specifier.contains(v) for a final release v.
SpecifierContains(c, v) == ClauseHolds(c.operator, VersionCmp(v, c.version), v, c.version)

\* v in spec: every clause holds (a final release v is never filtered out as
\* a pre-release).
SpecifierSetContains(spec, v) == \A c \in spec.specs : SpecifierContains(c, v)

(***************************************************************************)
(* parse_python_requires                                                   *)
(***************************************************************************)

\* The strings whose code points Chars gives.
Strings == DOMAIN CodePoints

\* The string of the code points cs.
Str(cs) == CHOOSE s \in Strings : Chars(s) = cs

\* version_str of the clause the loop keeps as minimum: one no other clause of
\* cs is below (None for no clause).
LeastClause(cs) ==
    IF cs = {} THEN None
    ELSE Str((CHOOSE c \in cs : \A d \in cs : ~VersionLess(d.version, c.version)).text)

GreatestClause(cs) ==
    IF cs = {} THEN None
    ELSE Str((CHOOSE c \in cs : \A d \in cs : ~VersionLess(c.version, d.version)).text)

\* (min_version, max_version) of a parsed requires_python.
MinMaxOf(spec) ==
    IF ~spec.valid THEN <<None, None>>
    ELSE <<LeastClause({c \in spec.specs : c.operator \in {">=", ">", "~="}}),
           GreatestClause({c \in spec.specs : c.operator \in {"<=", "<"}})>>

\* (min_version, max_version): the least lower bound and the greatest upper
\* bound among the clauses, as str(specifier.version) spells them (for the
\* inputs, as written); (None, None) for a falsy or malformed requires_python.
parse_python_requires(requires_python) ==
    IF ~Truthy(requires_python) THEN <<None, None>>
    ELSE MinMaxOf(SpecifierSet(Chars(requires_python)))

(***************************************************************************)
(* Inputs: what https://pypi.org/pypi/<package>/json answers               *)
(***************************************************************************)

\* At most this many releases in data["releases"].
MaxReleases == 3

\* The release keys, in the order the JSON object lists them.
VersionKeys == <<"1.0.0a1", "9.0", "10.0", "2004d">>

File(requires_python, upload_time) ==
    [requires_python |-> requires_python, upload_time_iso_8601 |-> upload_time]

\* The lists of file records a release may carry.
FileLists ==
    { <<>>,
      <<File(None, "2023-05-20")>>,
      <<File(">=3.9", "2024-01-15")>>,
      <<File("<3.8", Absent)>>,
      <<File(">=3.x", "2023-05-20")>>,
      <<File(">=3.8,<3.11", Absent)>>,
      <<File("", "2023-05-20"), File(">=3.9", "2024-01-15")>> }

\* The subsequences of VersionKeys of at most MaxReleases keys, as the sets
\* of positions they keep.
KeyChoices ==
    {S \in SUBSET (1..Len(VersionKeys)) : Cardinality(S) <= MaxReleases}

RECURSIVE Items(_, _)
\* data["releases"].items() for the keys at the positions S (ascending) with
\* the files f gives each.
Items(S, f) ==
    IF S = {} THEN <<>>
    ELSE LET i == CHOOSE j \in S : \A k \in S : j <= k
         IN  <<[version |-> VersionKeys[i], files |-> f[i]]>> \o Items(S \ {i}, f)

\* What the request for one version's metadata may give: an exception (of the
\* request, of .json() or of ["info"]), or info.get("requires_python").
LookupError == "<exception>"
LookupOutcomes == {LookupError, None, ">=3.9"}

\* No request for this version's metadata was made in this call.
NotRequested == "<not requested>"

(***************************************************************************)
(* get_python_compatibility_matrix                                         *)
(***************************************************************************)

python_versions == <<"3.7", "3.8", "3.9", "3.10", "3.11", "3.12", "3.13", "3.14">>

\* compat_matrix[pv] is None.  (An entry is a record; None among entries is
\* the record of None fields, which no entry the code writes equals: its
\* version is a release key.)
NoneEntry == [version |-> None, released |-> None, requires_python |-> None]

\* The matrix begun as the empty dict, keys added as entries are found.
EmptyMatrix == [pv \in {} |-> NoneEntry]

\* {pv: None for pv in python_versions}
NewMatrix == [pv \in {python_versions[i] : i \in 1..Len(python_versions)} |-> NoneEntry]

\* d[k] = v on a dict
DictSet(d, k, v) == [x \in DOMAIN d \cup {k} |-> IF x = k THEN v ELSE d[x]]

\* sorted(items, ..., reverse=True), where less[i, j] tells whether the i-th
\* item sorts below the j-th: descending, items that compare equal keeping
\* their order (Python's sort is stable, also reversed).
SortedReverse(items, less) ==
    [p \in 1..Len(items) |->
        items[CHOOSE i \in 1..Len(items) :
                Cardinality({j \in 1..Len(items) :
                                less[i, j] \/ (~less[j, i] /\ j < i)}) = p - 1]]

\* The sort without its key: sorted(data["releases"].items(), reverse=True).
SortNeverByVersion(items) == TRUE

\* key=lambda x: Version(x[0]) raises InvalidVersion for some item.
SortRaisesInvalidVersion(items) ==
    \E i \in 1..Len(items) : ~Version(Chars(items[i].version)).valid

\* Lines 60-69: by parsed version, newest first; by the (key, files) tuples,
\* that is by key string, when any key is no version.
SortReleasesNewestFirst(items) ==
    IF ~SortRaisesInvalidVersion(items)
    THEN SortedReverse(items, [i, j \in 1..Len(items) |->
            VersionLess(Version(Chars(items[i].version)),
                        Version(Chars(items[j].version)))])
    ELSE SortedReverse(items, [i, j \in 1..Len(items) |->
            StrLess(Chars(items[i].version), Chars(items[j].version))])

\* The first file record alone is asked for requires_python.
RequiresFromFirstFile(release_files) == Get(release_files[1], "requires_python", None)

\* Lines 80-84: the requires_python of the first file record that has a truthy
\* one, None when none has.
RequiresFromFiles(release_files) ==
    LET has == {i \in 1..Len(release_files) :
                    Truthy(Get(release_files[i], "requires_python", None))}
    IN  IF has = {} THEN None
        ELSE release_files[CHOOSE i \in has : \A j \in has : i <= j].requires_python

\* Line 86 without its condition: the version's metadata is always asked for.
AlwaysLookup(req) == TRUE

\* Line 86: the files gave no requires_python, the version's own metadata is
\* asked for.
NeedsLookup(req) == ~Truthy(req)

\* Line 77
UploadDate(release_files) == Get(release_files[1], "upload_time_iso_8601", "")

\* Line 99 without its test: every release that supports py_ver is written.
NeverAlreadyFound(matrix, py_ver) == FALSE

\* Line 99: a newer release already stands for this Python version.
AlreadyFound(matrix, py_ver) == matrix[py_ver] # NoneEntry

\* supports, no exception let out.
Supports(b) == [raised |-> FALSE, supports |-> b]

\* Lines 108-111 without the try: a malformed requires_python raises.
SupportOfWithoutExcept(spec, py_ver) ==
    IF ~spec.valid THEN [raised |-> TRUE, supports |-> FALSE]
    ELSE Supports(SpecifierSetContains(spec, Version(Chars(py_ver) \o Chars(".0"))))

\* Lines 108-113 with the except branch claiming support.
SupportOfExceptTrue(spec, py_ver) ==
    IF ~spec.valid THEN Supports(TRUE)
    ELSE Supports(SpecifierSetContains(spec, Version(Chars(py_ver) \o Chars(".0"))))

\* Lines 108-113 for a parsed requires_python: False for a malformed one (the
\* bare except), else Version(py_ver + ".0") in spec.
SupportOf(spec, py_ver) ==
    IF ~spec.valid THEN Supports(FALSE)
    ELSE Supports(SpecifierSetContains(spec, Version(Chars(py_ver) \o Chars(".0"))))

\* Lines 103-113 with no restriction counted as no support.
SupportCheckNoDefault(req, py_ver) ==
    IF ~Truthy(req) THEN Supports(FALSE)
    ELSE SupportOf(SpecifierSet(Chars(req)), py_ver)

\* Lines 103-113: whether the release supports py_ver, and whether the check
\* let an exception out (the bare except lets none).
SupportCheck(req, py_ver) ==
    IF ~Truthy(req) THEN Supports(TRUE)
    ELSE SupportOf(SpecifierSet(Chars(req)), py_ver)

VARIABLES
    releases,         \* data["releases"].items(), the call's input
    pc,               \* where the call stands: sort, loop, target, done, raised
    sorted_releases,
    rel_i,            \* the position of the release loop (line 72)
    py_i,             \* the position of the python_versions loop (line 98)
    upload_date,
    requires_python,
    min_py,
    max_py,
    compat_matrix,
    ver_meta,         \* per release key, the requires_python the per-version
                      \* request gave this call (None also when it failed)
    call,             \* 1: the first call on this input; 2: the second
    first_matrix,     \* what the first call returned
    first_meta        \* ver_meta of the first call

vars == <<releases, pc, sorted_releases, rel_i, py_i, upload_date,
          requires_python, min_py, max_py, compat_matrix, ver_meta, call,
          first_matrix, first_meta>>

locals == <<upload_date, requires_python, min_py, max_py>>
history == <<call, first_matrix, first_meta>>

KeySet == {VersionKeys[i] : i \in 1..Len(VersionKeys)}
NoMeta == [k \in KeySet |-> NotRequested]

\* The call has fetched the package's JSON and built the empty matrix
\* (lines 52-58).
Init ==
    /\ \E S \in KeyChoices : \E f \in [S -> FileLists] : releases = Items(S, f)
    /\ pc = "sort"
    /\ sorted_releases = <<>>
    /\ rel_i = 1
    /\ py_i = 1
    /\ upload_date = None
    /\ requires_python = None
    /\ min_py = None
    /\ max_py = None
    /\ compat_matrix = NewMatrix
    /\ ver_meta = NoMeta
    /\ call = 1
    /\ first_matrix = NewMatrix
    /\ first_meta = NoMeta

\* Lines 60-69
SortReleases ==
    /\ pc = "sort"
    /\ sorted_releases' = SortReleasesNewestFirst(releases)
    /\ rel_i' = 1
    /\ pc' = "loop"
    /\ UNCHANGED <<releases, py_i, locals, compat_matrix, ver_meta, history>>

\* Lines 72-74: a release without files is passed over.
SkipEmptyRelease ==
    /\ pc = "loop"
    /\ rel_i <= Len(sorted_releases)
    /\ sorted_releases[rel_i].files = <<>>
    /\ rel_i' = rel_i + 1
    /\ UNCHANGED <<releases, pc, sorted_releases, py_i, locals, compat_matrix,
                   ver_meta, history>>

\* Lines 72-95 for a release one of whose files gives requires_python.
ReadRelease ==
    /\ pc = "loop"
    /\ rel_i <= Len(sorted_releases)
    /\ LET release_files == sorted_releases[rel_i].files
           req == RequiresFromFiles(release_files)
       IN  /\ release_files # <<>>
           /\ ~NeedsLookup(req)
           /\ upload_date' = UploadDate(release_files)
           /\ requires_python' = req
           /\ min_py' = parse_python_requires(req)[1]
           /\ max_py' = parse_python_requires(req)[2]
    /\ py_i' = 1
    /\ pc' = "target"
    /\ UNCHANGED <<releases, sorted_releases, rel_i, compat_matrix, ver_meta, history>>

\* Lines 72-95 for a release none of whose files gives requires_python: the
\* version's own metadata is requested, and requires_python stays None when
\* the request fails.
FetchVersionMetadata ==
    /\ pc = "loop"
    /\ rel_i <= Len(sorted_releases)
    /\ LET version == sorted_releases[rel_i].version
           release_files == sorted_releases[rel_i].files
           req == RequiresFromFiles(release_files)
       IN  /\ release_files # <<>>
           /\ NeedsLookup(req)
           /\ \E outcome \in LookupOutcomes :
                LET got == IF outcome = LookupError THEN req ELSE outcome
                IN  /\ requires_python' = got
                    /\ ver_meta' = [ver_meta EXCEPT ![version] = got]
                    /\ min_py' = parse_python_requires(got)[1]
                    /\ max_py' = parse_python_requires(got)[2]
           /\ upload_date' = UploadDate(release_files)
    /\ py_i' = 1
    /\ pc' = "target"
    /\ UNCHANGED <<releases, sorted_releases, rel_i, compat_matrix, history>>

\* Lines 98-120 for one py_ver: one turn of the inner loop; after the last
\* Python version the release loop moves on.
CheckPythonVersion ==
    /\ pc = "target"
    /\ LET py_ver == python_versions[py_i]
           version == sorted_releases[rel_i].version
           check == SupportCheck(requires_python, py_ver)
           last == py_i = Len(python_versions)
       IN  IF AlreadyFound(compat_matrix, py_ver)
           THEN /\ compat_matrix' = compat_matrix
                /\ pc' = IF last THEN "loop" ELSE "target"
                /\ py_i' = IF last THEN py_i ELSE py_i + 1
                /\ rel_i' = IF last THEN rel_i + 1 ELSE rel_i
           ELSE IF check.raised
           THEN /\ pc' = "raised"
                /\ UNCHANGED <<compat_matrix, py_i, rel_i>>
           ELSE /\ compat_matrix' =
                        IF check.supports
                        THEN DictSet(compat_matrix, py_ver,
                                     [version         |-> version,
                                      released        |-> upload_date,
                                      requires_python |-> requires_python])
                        ELSE compat_matrix
                /\ pc' = IF last THEN "loop" ELSE "target"
                /\ py_i' = IF last THEN py_i ELSE py_i + 1
                /\ rel_i' = IF last THEN rel_i + 1 ELSE rel_i
    /\ UNCHANGED <<releases, sorted_releases, locals, ver_meta, history>>

\* Line 122
Return ==
    /\ pc = "loop"
    /\ rel_i > Len(sorted_releases)
    /\ pc' = "done"
    /\ UNCHANGED <<releases, sorted_releases, rel_i, py_i, locals, compat_matrix,
                   ver_meta, history>>

\* The function is called a second time for the same package, PyPI answering
\* the same data["releases"]: a new frame, the first call's result kept.
CallAgain ==
    /\ pc = "done"
    /\ call = 1
    /\ call' = 2
    /\ first_matrix' = compat_matrix
    /\ first_meta' = ver_meta
    /\ pc' = "sort"
    /\ sorted_releases' = <<>>
    /\ rel_i' = 1
    /\ py_i' = 1
    /\ upload_date' = None
    /\ requires_python' = None
    /\ min_py' = None
    /\ max_py' = None
    /\ compat_matrix' = NewMatrix
    /\ ver_meta' = NoMeta
    /\ UNCHANGED releases

Next ==
    \/ SortReleases
    \/ SkipEmptyRelease
    \/ ReadRelease
    \/ FetchVersionMetadata
    \/ CheckPythonVersion
    \/ Return

Spec == Init /\ [][Next]_vars

NextTwice == Next \/ CallAgain

SpecTwice == Init /\ [][NextTwice]_vars

(***************************************************************************)
(* What the properties speak of                                            *)
(***************************************************************************)

PySet == {python_versions[i] : i \in 1..Len(python_versions)}

\* The values a requires_python takes in the model.
RequiresValues == {None, "", ">=3.9", "<3.8", ">=3.x", ">=3.8,<3.11"}

\* A constraint that is present and is no specifier set.
Malformed(req) == Truthy(req) /\ ~SpecifierSet(Chars(req)).valid

\* The constraint req, absent or not, holds of the Python version py extended
\* with ".0": it is absent, or it parses and every clause holds.
Satisfies(req, py) ==
    \/ ~Truthy(req)
    \/ /\ ~Malformed(req)
       /\ SpecifierSetContains(SpecifierSet(Chars(req)), Version(Chars(py) \o Chars(".0")))

SatisfiesTable == [req \in RequiresValues |-> [py \in PySet |-> Satisfies(req, py)]]
MalformedTable == [req \in RequiresValues |-> Malformed(req)]
ParsedKey == [k \in KeySet |-> Version(Chars(k))]

ReleaseSet == {releases[i] : i \in 1..Len(releases)}

\* The release of data["releases"] under key k.
ReleaseOf(k) == CHOOSE r \in ReleaseSet : r.version = k

\* Some file record of r carries a (non-empty) requires_python.
CarriesRequires(r) == \E i \in 1..Len(r.files) : Truthy(r.files[i].requires_python)

\* The constraint of release r in this call: that of the first file record
\* carrying one, else what the per-version request gave (NotRequested before
\* the scan reaches r).
Constraint(r) ==
    IF CarriesRequires(r)
    THEN r.files[Min({i \in 1..Len(r.files) : Truthy(r.files[i].requires_python)})].requires_python
    ELSE ver_meta[r.version]

\* Release r has files, has been given its constraint, and the constraint
\* holds of py.
Qualifies(r, py) ==
    /\ r.files # <<>>
    /\ Constraint(r) # NotRequested
    /\ SatisfiesTable[Constraint(r)][py]

AllKeysParse == \A r \in ReleaseSet : ParsedKey[r.version].valid

\* The position of key k in the scan order.
ScanPos(k) == CHOOSE i \in 1..Len(sorted_releases) : sorted_releases[i].version = k

(***************************************************************************)
(* Properties                                                              *)
(***************************************************************************)

\* C1: newest qualifying wins.  When every release key parses as a version,
\* the returned matrix names, for each Python version some release qualifies
\* for, a qualifying release that no qualifying release is newer than.
C1_NewestQualifyingWins ==
    (pc = "done" /\ AllKeysParse) =>
        \A py \in PySet : \A r1 \in ReleaseSet :
            Qualifies(r1, py) =>
                /\ compat_matrix[py] # NoneEntry
                /\ Qualifies(ReleaseOf(compat_matrix[py].version), py)
                /\ ~VersionLess(ParsedKey[compat_matrix[py].version],
                                ParsedKey[r1.version])

\* Two releases qualify for one Python version and the newer one is named.
C1_Witness ==
    /\ pc = "done"
    /\ AllKeysParse
    /\ \E py \in PySet : \E r1, r2 \in ReleaseSet :
        /\ Qualifies(r1, py)
        /\ Qualifies(r2, py)
        /\ VersionLess(ParsedKey[r2.version], ParsedKey[r1.version])
        /\ compat_matrix[py].version = r1.version

\* C2 as stated: no entry of the matrix ever names a pre-release.
C2_NeverPrerelease ==
    \A py \in PySet :
        compat_matrix[py] # NoneEntry =>
            ~is_prerelease(ParsedKey[compat_matrix[py].version])

\* C3: a release whose constraint is malformed is never an entry, no
\* exception leaves the call, and the scan goes on past such a release: the
\* call returns, every Python version some release qualifies for has an
\* entry.
C3_MalformedNeverSelected ==
    /\ pc # "raised"
    /\ \A py \in PySet :
        compat_matrix[py] # NoneEntry =>
            ~MalformedTable[Constraint(ReleaseOf(compat_matrix[py].version))]
    /\ pc = "done" =>
        \A py \in PySet :
            (\E r \in ReleaseSet : Qualifies(r, py)) => compat_matrix[py] # NoneEntry

\* The call returned after scanning a release with a malformed constraint
\* first and naming a release scanned after it.
C3_Witness ==
    /\ pc = "done"
    /\ Len(sorted_releases) >= 2
    /\ CarriesRequires(sorted_releases[1])
    /\ MalformedTable[Constraint(sorted_releases[1])]
    /\ \E py \in PySet :
        /\ compat_matrix[py] # NoneEntry
        /\ ScanPos(compat_matrix[py].version) > 1

\* A parseable release that is no pre-release.
Stable(r) == ParsedKey[r.version].valid /\ ~is_prerelease(ParsedKey[r.version])

\* No stable release is newer than r.
NewestCandidate(r) ==
    \A s \in ReleaseSet :
        Stable(s) => ~VersionLess(ParsedKey[r.version], ParsedKey[s.version])

\* C4 as stated: a stable release whose file records carry no requires_python
\* (one with no file record included) qualifies for every Python version:
\* every entry is set, and to that release when it is the newest candidate.
C4_AbsentConstraintSatisfiesAll ==
    pc = "done" =>
        \A r \in ReleaseSet :
            (Stable(r) /\ ~CarriesRequires(r)) =>
                \A py \in PySet :
                    /\ compat_matrix[py] # NoneEntry
                    /\ NewestCandidate(r) => compat_matrix[py].version = r.version

\* C4 amended: a stable release with at least one file record, none carrying
\* requires_python, for which the per-version request gave none either,
\* qualifies for every Python version: every entry names it or a release
\* scanned before it.  A release without file records is never an entry.
C4_Amended ==
    pc = "done" =>
        \A r \in ReleaseSet :
            /\ (Stable(r) /\ r.files # <<>> /\ ~CarriesRequires(r)
                    /\ ver_meta[r.version] = None) =>
                    \A py \in PySet :
                        /\ compat_matrix[py] # NoneEntry
                        /\ ScanPos(compat_matrix[py].version) <= ScanPos(r.version)
            /\ r.files = <<>> =>
                    \A py \in PySet : compat_matrix[py].version # r.version

\* A stable release with files and no constraint from files or request was
\* scanned after a release that supports only some Python versions, and is
\* the entry of the others.
C4_Witness ==
    /\ pc = "done"
    /\ \E r \in ReleaseSet :
        /\ Stable(r) /\ r.files # <<>> /\ ~CarriesRequires(r)
        /\ ver_meta[r.version] = None
        /\ ScanPos(r.version) = 2
        /\ compat_matrix["3.7"].version = r.version
        /\ compat_matrix["3.14"].version = sorted_releases[1].version

\* C5: the matrix's keys are exactly python_versions in every state, and in
\* the returned matrix a Python version no release qualifies for holds None.
C5_MatrixComplete ==
    /\ DOMAIN compat_matrix = PySet
    /\ pc = "done" =>
        \A py \in PySet :
            (~\E r \in ReleaseSet : Qualifies(r, py)) => compat_matrix[py] = NoneEntry

\* A returned matrix with an entry for one Python version and None for
\* another.
C5_Witness ==
    /\ pc = "done"
    /\ releases # <<>>
    /\ \E py \in PySet : compat_matrix[py] = NoneEntry
    /\ \E py \in PySet : compat_matrix[py] # NoneEntry

\* C6 as stated: when some release key parses, the parseable releases are
\* scanned in descending version order, the unparseable keys are out of the
\* ranking (never an entry), and no version-parse failure leaves the call.
C6_UnparseableDegradeOnlyThemselves ==
    /\ pc # "raised"
    /\ (pc # "sort" /\ \E r \in ReleaseSet : ParsedKey[r.version].valid) =>
        /\ \A i, j \in 1..Len(sorted_releases) :
            (/\ i < j
             /\ ParsedKey[sorted_releases[i].version].valid
             /\ ParsedKey[sorted_releases[j].version].valid) =>
                ~VersionLess(ParsedKey[sorted_releases[i].version],
                             ParsedKey[sorted_releases[j].version])
        /\ \A py \in PySet :
            compat_matrix[py] # NoneEntry =>
                ParsedKey[compat_matrix[py].version].valid

\* C7 as stated: the constraint recorded for an entry's release is its first
\* file record's requires_python (none when that record has none), and the
\* upload time is that record's.
C7_FirstRecordOnly ==
    \A py \in PySet :
        compat_matrix[py] # NoneEntry =>
            LET first == ReleaseOf(compat_matrix[py].version).files[1]
            IN  /\ IF Truthy(first.requires_python)
                   THEN compat_matrix[py].requires_python = first.requires_python
                   ELSE ~Truthy(compat_matrix[py].requires_python)
                /\ compat_matrix[py].released = Get(first, "upload_time_iso_8601", "")

\* C7 amended: the constraint evaluated for a release is the requires_python
\* of the first file record that carries a non-empty one, and what the
\* per-version request gave when no record carries one; the upload time is
\* always the first record's.
C7_Amended ==
    \A py \in PySet :
        compat_matrix[py] # NoneEntry =>
            /\ compat_matrix[py].requires_python =
                    Constraint(ReleaseOf(compat_matrix[py].version))
            /\ compat_matrix[py].released =
                    Get(ReleaseOf(compat_matrix[py].version).files[1],
                        "upload_time_iso_8601", "")

\* An entry whose release has a first record without requires_python and a
\* second with one: the entry took the second's constraint and the first's
\* upload time.
C7_Witness ==
    \E py \in PySet :
        /\ compat_matrix[py] # NoneEntry
        /\ Len(ReleaseOf(compat_matrix[py].version).files) = 2
        /\ ~Truthy(ReleaseOf(compat_matrix[py].version).files[1].requires_python)
        /\ compat_matrix[py].requires_python =
                ReleaseOf(compat_matrix[py].version).files[2].requires_python
        /\ compat_matrix[py].released =
                ReleaseOf(compat_matrix[py].version).files[1].upload_time_iso_8601

\* The releases the loop asks the per-version metadata for.
LooksUp(r) == r.files # <<>> /\ ~CarriesRequires(r)

C9_SelectionSound ==
    /\ \A py \in PySet :
        compat_matrix[py] # NoneEntry =>
            SatisfiesTable[Constraint(ReleaseOf(compat_matrix[py].version))][py]
    /\ compat_matrix["3.8"].requires_python # "<3.8"

\* A release requiring "<3.8" is the entry of 3.7 and 3.8 has none.
C9_Witness ==
    /\ pc = "done"
    /\ compat_matrix["3.7"].requires_python = "<3.8"
    /\ compat_matrix["3.8"] = NoneEntry

\* C10: in every step an entry that is set stays as it is, and a step that
\* sets one Python version's entry changes no other.
C10_WriteOnce ==
    [][/\ \A py \in PySet :
            compat_matrix[py] # NoneEntry => compat_matrix'[py] = compat_matrix[py]
       /\ \A p, q \in PySet :
            (compat_matrix'[p] # compat_matrix[p] /\ q # p) =>
                compat_matrix'[q] = compat_matrix[q]]_vars

\* The inner loop stands at a Python version whose entry an earlier release
\* set, with a release that supports it too.
C10_Witness ==
    /\ pc = "target"
    /\ compat_matrix[python_versions[py_i]] # NoneEntry
    /\ compat_matrix[python_versions[py_i]].version # sorted_releases[rel_i].version
    /\ SatisfiesTable[requires_python][python_versions[py_i]]

=============================================================================
